---- MODULE Spec2Model ----
(***************************************************************************)
(* Element Tester V2: the test orchestrator (TestRunner), the hipot and    *)
(* measurement sequencers as seen by the orchestrator, the relay bank and  *)
(* the session log (result_logging).                                       *)
(*                                                                         *)
(* Spec     one tester: run_full_sequence invoked repeatedly on one        *)
(*          TestRunner, with the operator's choices, the instrument's      *)
(*          verdicts and the sequencers' exceptions as inputs.             *)
(* SeqSpec  two tester instances creating sessions against the same log    *)
(*          directories, the steps of _get_next_sequence_number and of the *)
(*          header write interleaved.                                      *)
(* LogSpec  the session log alone: its module functions called in any      *)
(*          order while the shared mirror location comes and goes.         *)
(***************************************************************************)
EXTENDS Integers, Sequences, FiniteSets, TLC

\* ------------------------------------------------------------------ bounds
\* invocations of run_full_sequence on one runner
MaxRuns == 2
\* sequencer executions (measurement and hipot attempts) over all invocations
MaxExecutions == 4
\* session files each tester of SeqSpec creates
MaxSessions == 2
\* log files present in the shared directories before SeqSpec starts
MaxPreexisting == 1
\* calls of the log module's functions in LogSpec
MaxLogCalls == 4

\* ------------------------------------------------------------------ relays
Channels == 0..7

AllOpen == [c \in Channels |-> FALSE]

\* ERB08Driver.set_relay: one channel driven on or off
set_relay(r, bit, on) == [r EXCEPT ![bit] = on]

\* ERB08Commands.cmd_all_off: `for relay in range(8): cmd_set_bit(relay, False)`,
\* from channel `relay` up to channel `last`
RECURSIVE cmd_all_off(_, _, _)
cmd_all_off(r, relay, last) ==
    IF relay > last THEN r ELSE cmd_all_off(set_relay(r, relay, FALSE), relay + 1, last)

\* variant: the loop stops before the last channel
all_off_but_last(r) == cmd_all_off(r, 0, 6)

\* ERB08Driver.all_off -> ProcAllOff -> cmd_all_off over the 8 channels
all_off(r) == cmd_all_off(r, 0, 7)

\* hipot_test_procedures.open_all_relays: opens ERB relay 8 (index 7) only;
\* all_off is reached only when that set_relay raises
open_all_relays(r) == set_relay(r, 7, FALSE)

\* --------------------------------------------------------- hipot sequencer
\* where an attempt of run_hipot_test raises: nowhere, at the instrument reset,
\* at closing relay 8 (index 7), at closing relay 7 (index 6), at run_from_file
HipotFaults == {"none", "reset", "close7", "close6", "run"}

\* hipot_test_procedures.run_hipot_test. r: the relays before the call;
\* keep: keep_relay_closed; fault: the step that raises; verdict: the
\* instrument's pass/fail. The except clause turns the relays off only when
\* relay_closed and not keep_relay_closed.
run_hipot_test(r, keep, fault, verdict) ==
    LET r0 == all_off(r)
        r1 == set_relay(r0, 7, TRUE)
        r2 == set_relay(r1, 6, TRUE)
        emergency(rr) == IF ~keep THEN all_off(rr) ELSE rr
    IN  CASE fault = "reset"  -> [relays |-> r0, passed |-> FALSE, raised |-> TRUE]
          [] fault = "close7" -> [relays |-> r0, passed |-> FALSE, raised |-> TRUE]
          [] fault = "close6" -> [relays |-> emergency(r1), passed |-> FALSE, raised |-> TRUE]
          [] fault = "run"    -> [relays |-> emergency(r2), passed |-> FALSE, raised |-> TRUE]
          [] OTHER            -> [relays |-> IF keep THEN r2
                                             ELSE set_relay(set_relay(r2, 6, FALSE), 7, FALSE),
                                  passed |-> verdict, raised |-> FALSE]

\* --------------------------------------------------- measurement sequencer
\* MeasurementTestSequence.run_test as the orchestrator sees it: all relays
\* are driven off before the first pin-pair and after each pin-pair; the
\* verdict comes from the readings.
measurement_run_test(r, verdict) ==
    [relays |-> all_off(r), passed |-> verdict, raised |-> FALSE,
     msg |-> [text |-> IF verdict THEN "passed" ELSE "failed", points |-> {}]]

\* run_test ends with an exception none of its own handlers caught, raised
\* before the relays were touched or after the loop over the positions
measurement_raises(r, touched) ==
    [relays |-> IF touched THEN all_off(r) ELSE r, raised |-> TRUE]

\* the three pin-pairs of `configurations`: Pin 1 to 6, Pin 2 to 5, Pin 3 to 4
Points == 1..3

\* left_vals and right_vals receive the same value at every point
Sides == {"L", "R"}

\* what the meter returns at a point, in hundredths of an ohm (none of them
\* half-way between two tenths): 9.84 is recorded as 9.8
Readings == {984, 2000}

\* round(reading.value, 1), on hundredths
round1(v) == ((v + 5) \div 10) * 10

\* how a point ends: a valid reading within the attempts; no valid reading
\* (reading_valid stays False); an exception of close_func or flush_buffer
PointOutcomes ==
    {[kind |-> "reading", value |-> v] : v \in Readings}
        \cup {[kind |-> "timeout", value |-> 0], [kind |-> "error", value |-> 0]}

\* resistance_range: None, or (rmin, rmax)
NoRange == [configured |-> FALSE, rmin |-> 0, rmax |-> 0]

Range(rmin, rmax) == [configured |-> TRUE, rmin |-> rmin, rmax |-> rmax]

\* variant: a value is only compared with the lower limit
within_limits_lower_only(val, rmin, rmax) == val # 0 /\ rmin <= val

\* run_test, lines 446-451: a value is accepted when it is not 0.0 and lies
\* in [rmin, rmax]
within_limits(val, rmin, rmax) == val # 0 /\ rmin <= val /\ val <= rmax

\* MeasurementTestSequence.run_test. outcomes: how each point ends. The value
\* recorded at a point is the rounded reading, or 0.0; the message is its
\* text and the points it names (f"{side}P{pin}")
run_test(r, resistance_range, outcomes) ==
    LET left_vals == [i \in Points |->
                         IF outcomes[i].kind = "reading"
                         THEN round1(outcomes[i].value) ELSE 0]
        timeout_occurred == \E i \in Points : outcomes[i].kind = "timeout"
        failed_measurements ==
            {sp \in Sides \X Points :
                ~within_limits(left_vals[sp[2]], resistance_range.rmin, resistance_range.rmax)}
        result(passed, text, points) ==
            [relays |-> all_off(r), passed |-> passed, raised |-> FALSE, values |-> left_vals,
             msg |-> [text |-> text, points |-> points]]
    IN  CASE timeout_occurred ->
                result(FALSE, "Problem with the UT61xP measurement application. Call (318-272-3118)", {})
          [] ~timeout_occurred /\ Points = {} ->
                result(FALSE, "No measurements were completed - check hardware and connections", {})
          [] ~timeout_occurred /\ Points # {} /\ resistance_range.configured ->
                IF failed_measurements = {}
                THEN result(TRUE, "All measurements within limits", {})
                ELSE result(FALSE, "Failed", failed_measurements)
          [] OTHER ->
                result(TRUE, "Measurements recorded (no range configured)", {})

\* ---------------------------------------------------------- hipot instrument
\* the instrument's answer to RD 1?, as a sequence of characters; NoResult is
\* a missing answer (None)
NoResult == [present |-> FALSE, text |-> <<>>]

Text(chars) == [present |-> TRUE, text |-> chars]

RawResults ==
    {NoResult, Text(<<>>), Text(<<" ", "\n">>),
     Text(<<"P", "A", "S", "S">>), Text(<<" ", "P", "a", "s", "s", "\n">>),
     Text(<<"p", "a", "s", "s", "\r">>), Text(<<"P", "A", " ", "S", "S">>),
     Text(<<"F", "A", "I", "L">>), Text(<<"S", "h", "o", "r", "t">>),
     Text(<<"H", "I", "-", "L", "I", "M", "I", "T">>), Text(<<"P", "A", "S">>),
     Text(<<"1", ",", "p", "A", "S", "S", ",", "A", "C", "W">>)}

Whitespace == {" ", "\n", "\r", "\t"}

\* str.strip(): leading and trailing whitespace removed
RECURSIVE lstrip(_)
lstrip(s) == IF s # <<>> /\ Head(s) \in Whitespace THEN lstrip(Tail(s)) ELSE s

RECURSIVE rstrip(_)
rstrip(s) ==
    IF s # <<>> /\ s[Len(s)] \in Whitespace THEN rstrip(SubSeq(s, 1, Len(s) - 1)) ELSE s

strip(s) == rstrip(lstrip(s))

\* variant: no letter is upper-cased
upper_char_unchanged(c) == c

\* str.upper() on one character of the answers of the model
upper_char(c) ==
    CASE c = "p" -> "P" [] c = "a" -> "A" [] c = "s" -> "S" [] c = "h" -> "H"
      [] c = "o" -> "O" [] c = "r" -> "R" [] c = "t" -> "T" [] OTHER -> c

upper(s) == [i \in 1..Len(s) |-> upper_char(s[i])]

\* `sub in s` on strings
contains(s, sub) ==
    \E i \in 1..(Len(s) - Len(sub) + 1) : SubSeq(s, i, i + Len(sub) - 1) = sub

\* HipotProcedures.run_from_file, lines 177-179:
\* result_clean = (result or "").strip().upper(); passed = "PASS" in result_clean
run_from_file(result) ==
    LET result_clean == upper(strip(IF result.present THEN result.text ELSE <<>>))
    IN  contains(result_clean, <<"P", "A", "S", "S">>)

\* ------------------------------------------------------------ configuration
NoCfg == [present |-> FALSE, voltage |-> 0, wattage |-> 0, rmin |-> 0, rmax |-> 0]

\* ConfigurationWindow.RESISTANCE_RANGE through _compute_resistance_range, in
\* hundredths of an ohm (the 7000 W entries); a combination without an entry
\* gives (0.0, 0.0)
RESISTANCE_RANGE(v, w) ==
    CASE v = 208 /\ w = 7000 -> <<910, 980>>
      [] v = 230 /\ w = 7000 -> <<1100, 1175>>
      [] v = 240 /\ w = 7000 -> <<1195, 1230>>
      [] v = 480 /\ w = 7000 -> <<4510, 4560>>
      [] OTHER -> <<0, 0>>

\* ConfigurationWindow.get_configuration on Accepted: (v, w, (rmin, rmax)),
\* stored by run_full_sequence as the selected configuration
get_configuration(v, w) ==
    [present |-> TRUE, voltage |-> v, wattage |-> w,
     rmin |-> RESISTANCE_RANGE(v, w)[1], rmax |-> RESISTANCE_RANGE(v, w)[2]]

\* the combinations of the dialog the model lets the operator pick
DialogChoices == {<<208, 7000>>, <<440, 9000>>}

Configs == {get_configuration(c[1], c[2]) : c \in DialogChoices}

\* how the configuration step of run_full_sequence ends: the dialog is not
\* shown (a configuration is stored), Accepted with a configuration, rejected
\* by the operator, or an exception while showing it
DialogOutcomes ==
    {[result |-> "accepted", cfg |-> c] : c \in Configs}
        \cup {[result |-> r, cfg |-> NoCfg] : r \in {"none", "cancelled", "failed"}}

\* variant: the rejected dialog does not end the call
returns_on_cancel_ignored(result) == FALSE

\* run_full_sequence, line 405: a dialog that was not accepted ends the call
returns_on_cancel(result) == result = "cancelled"

\* ----------------------------------------------------------------- identity
\* str.lower() on the identity strings of the model
Lower(s) == CASE s = "TEST" -> "test" [] s = "DEMO" -> "demo" [] OTHER -> s

\* (work order, part number) pairs the operator scans
Identities == {<<"TEST", "test">>, <<"demo", "DEMO">>, <<"WO1", "PN1">>}

\* test_runner.should_use_simulate_mode
should_use_simulate_mode(wo, pn) ==
    /\ wo # "" /\ pn # ""
    /\ <<Lower(wo), Lower(pn)>> \in {<<"test", "test">>, <<"demo", "demo">>}

\* variant: the demo identity is compared without lower-casing
is_demo_identity_case_sensitive(wo, pn) == wo = "test" /\ pn = "test"

\* run_full_sequence, CASE 1: the scripted demo sequence
is_demo_identity(wo, pn) == Lower(wo) = "test" /\ Lower(pn) = "test"

\* -------------------------------------------------------------- session log
\* the local results directory and MIRROR_LOG_PATHS (the shared remote path)
Dirs == {"local", "mirror"}

MIRROR_LOG_PATHS == {"mirror"}

\* one block of text of a session file: the header, one attempt, the summary
Line(kind, n, m, result, mode, msg) ==
    [kind |-> kind, n |-> n, m |-> m, result |-> result, mode |-> mode, msg |-> msg]

Max(S) == IF S = {} THEN 0 ELSE CHOOSE x \in S : \A y \in S : y <= x

\* the directories a scan or a probe can read: the local one and the
\* mirrors that are accessible (up: the mirror location is reachable)
Accessible(up) == {"local"} \cup (IF up THEN MIRROR_LOG_PATHS ELSE {})

\* _get_next_sequence_number, the scan: the largest ET_ELOVnnnn.txt number in
\* the given directory, 0 when there is none
scan_max(f, d) == Max(DOMAIN f[d])

\* _get_next_sequence_number, one pass of the probe loop: does a file with the
\* candidate number exist in an accessible location
\* variant: the probe looks at the local directory only
in_use_locally(f, up, candidate) == candidate \in DOMAIN f["local"]

in_use(f, up, candidate) == \E d \in Accessible(up) : candidate \in DOMAIN f[d]

RECURSIVE first_free(_, _, _)
first_free(f, up, candidate) ==
    IF in_use(f, up, candidate) THEN first_free(f, up, candidate + 1) ELSE candidate

\* _get_next_sequence_number run without interruption
get_next_sequence_number(f, up) ==
    first_free(f, up, Max({scan_max(f, d) : d \in Accessible(up)}) + 1)

\* Path.open(mode).write(content) on one target: "w" truncates or creates,
\* "a" appends or creates
write_file(dir, n, content, mode) ==
    IF mode = "a" /\ n \in DOMAIN dir
    THEN [dir EXCEPT ![n] = @ \o content]
    ELSE [k \in DOMAIN dir \cup {n} |-> IF k = n THEN content ELSE dir[k]]

\* TestSession._write_to_targets: every target is tried, a failing target is
\* skipped (ok: the directories whose write succeeds)
write_to_targets(f, n, content, mode, ok) ==
    [d \in Dirs |-> IF d \in ok THEN write_file(f[d], n, content, mode) ELSE f[d]]

\* _current_session is None
NoSession ==
    [active |-> FALSE, seq |-> 0, hipot_attempts |-> <<>>,
     measurement_attempts |-> <<>>, final_result |-> "none"]

\* TestSession.__init__ after the sequence number is known
TestSession(seq) ==
    [active |-> TRUE, seq |-> seq, hipot_attempts |-> <<>>,
     measurement_attempts |-> <<>>, final_result |-> "none"]

\* TestSession._write_header
write_header(f, s, ok) ==
    write_to_targets(f, s.seq, <<Line("header", s.seq, 0, "-", "-", "-")>>, "w", ok)

\* variant: attempts numbered from zero
hipot_attempt_num_zero_based(s) == Len(s.hipot_attempts)

\* attempt_num = len(self.hipot_attempts) + 1
hipot_attempt_num(s) == Len(s.hipot_attempts) + 1

\* TestSession.log_hipot_attempt: L is [cs: the session, fs: the files]
log_hipot_attempt(L, passed, ok) ==
    LET n == hipot_attempt_num(L.cs)
        res == IF passed THEN "PASS" ELSE "FAIL"
    IN  [cs |-> [L.cs EXCEPT !.hipot_attempts =
                    Append(@, [attempt |-> n, passed |-> passed])],
         fs |-> write_to_targets(L.fs, L.cs.seq,
                    <<Line("hipot", n, 0, res, "-", "-")>>, "a", ok)]

\* attempt_num = len(self.measurement_attempts) + 1
measurement_attempt_num(s) == Len(s.measurement_attempts) + 1

\* TestSession.log_measurement_attempt
log_measurement_attempt(L, passed, ok) ==
    LET n == measurement_attempt_num(L.cs)
        res == IF passed THEN "PASS" ELSE "FAIL"
    IN  [cs |-> [L.cs EXCEPT !.measurement_attempts =
                    Append(@, [attempt |-> n, passed |-> passed])],
         fs |-> write_to_targets(L.fs, L.cs.seq,
                    <<Line("measurement", n, 0, res, "-", "-")>>, "a", ok)]

\* TestSession.finalize; the note is "Mode: <mode> | <msg>" when the
\* orchestrator finalizes, and the bare message (mode "-") otherwise
finalize(L, overall_pass, mode, final_message, ok) ==
    LET res == IF overall_pass THEN "PASS" ELSE "FAIL"
    IN  [cs |-> [L.cs EXCEPT !.final_result = res],
         fs |-> write_to_targets(L.fs, L.cs.seq,
                    <<Line("summary", Len(L.cs.hipot_attempts),
                           Len(L.cs.measurement_attempts), res, mode, final_message)>>,
                    "a", ok)]

\* variant: the new session is created over an unfinalized one
start_test_session_without_finalize(L, up, ok) ==
    LET s == TestSession(get_next_sequence_number(L.fs, up))
    IN  [cs |-> s, fs |-> write_header(L.fs, s, ok)]

\* start_test_session: an unfinalized current session is finalized as
\* incomplete, then the new session is created and its header written
start_test_session(L, up, ok) ==
    LET L1 == IF L.cs.active /\ L.cs.final_result = "none"
              THEN finalize(L, FALSE, "-",
                       "Session ended without completion (new session started)", ok)
              ELSE L
        s == TestSession(get_next_sequence_number(L1.fs, up))
    IN  [cs |-> s, fs |-> write_header(L1.fs, s, ok)]

\* log_hipot_result
log_hipot_result(L, passed, ok) ==
    IF ~L.cs.active THEN L ELSE log_hipot_attempt(L, passed, ok)

\* log_measurement_result
log_measurement_result(L, passed, ok) ==
    IF ~L.cs.active THEN L ELSE log_measurement_attempt(L, passed, ok)

\* variant: the summary is never written and the session stays current
finalize_session_skipped(L, overall_pass, mode, final_message, ok) == L

\* finalize_session
finalize_session(L, overall_pass, mode, final_message, ok) ==
    IF ~L.cs.active THEN L
    ELSE [finalize(L, overall_pass, mode, final_message, ok) EXCEPT !.cs = NoSession]

\* ------------------------------------------------------------------- state
VARIABLES
    simulate,                \* TestRunner.simulate, the constructor's flag
    relay_driver,            \* TestRunner.relay_driver is not None
    hipot_driver,            \* TestRunner.hipot_driver is not None
    meter_driver,            \* TestRunner.meter_driver is not None
    ContinueExitDialog,      \* the widget was imported
    ContinueRetryExitDialog, \* the widget was imported
    selected_config,         \* TestRunner._selected_config
    dialog,                  \* how the configuration dialog of this invocation ended
    relays,                  \* the eight channels of the relay bank
    pc,                      \* where run_full_sequence stands
    wo, pn,                  \* the identity of the current invocation
    attempt,                 \* the retry counter of the running phase loop
    meas_ok, hip_ok,         \* the verdict of the last attempt of each phase
    current_session,         \* result_logging._current_session
    fs,                      \* the session files of each directory
    mirror_up,               \* the remote log location is reachable
    ret,                     \* how the last invocation ended, and its result
    runs,                    \* invocations of run_full_sequence so far
    seq_runs,                \* sequencer executions of this invocation, per phase
    executions,              \* sequencer executions over all invocations (LogSpec: calls)
    hw_touched,              \* a relay, hipot or meter operation ran in this invocation
    run_seq,                 \* the sequence number of this invocation's session
    tester,                  \* SeqSpec: each tester instance creating a session
    bench                    \* BenchSpec: the last call made on the bench, and its result

vars == <<simulate, relay_driver, hipot_driver, meter_driver, ContinueExitDialog,
          ContinueRetryExitDialog, selected_config, dialog, relays, pc, wo, pn, attempt,
          meas_ok, hip_ok, current_session, fs, mirror_up, ret, runs, seq_runs,
          executions, hw_touched, run_seq, tester, bench>>

\* fixed once the runner is constructed and the modules are imported
runner_vars == <<simulate, relay_driver, hipot_driver, meter_driver,
                 ContinueExitDialog, ContinueRetryExitDialog>>

Testers == {1, 2}

EmptyFs == [d \in Dirs |-> <<>>]

IdleTester == [pc |-> "idle", max_num |-> 0, candidate |-> 0, seq |-> 0, made |-> <<>>]

\* no call has been made on the bench
NoCall == [op |-> "none"]

\* variant: the hipot sequence is created without a hipot driver
hipot_test_seq_without_hipot_driver == relay_driver

\* TestRunner.__init__: the sequences exist when their drivers initialised
hipot_test_seq == relay_driver /\ hipot_driver

measurement_test_seq == relay_driver /\ meter_driver

\* TestRunner.__init__ (drivers are created only when not simulate; a driver
\* whose initialize() raised is None) and ProcInitializeRelays (all relays off)
Init ==
    /\ simulate \in BOOLEAN
    /\ \E failed \in (IF simulate THEN {{"relay", "hipot", "meter"}}
                      ELSE {{}, {"relay"}, {"hipot"}, {"meter"}}) :
          /\ relay_driver = ("relay" \notin failed)
          /\ hipot_driver = ("hipot" \notin failed)
          /\ meter_driver = ("meter" \notin failed)
    /\ ContinueExitDialog \in BOOLEAN
    /\ ContinueRetryExitDialog \in BOOLEAN
    /\ selected_config = NoCfg
    /\ dialog = "none"
    /\ relays = AllOpen
    /\ pc = "idle"
    /\ wo = "" /\ pn = ""
    /\ attempt = 0
    /\ meas_ok = FALSE /\ hip_ok = FALSE
    /\ current_session = NoSession
    /\ fs = EmptyFs
    /\ mirror_up = TRUE
    /\ ret = [kind |-> "none", ok |-> FALSE, msg |-> "-"]
    /\ runs = 0
    /\ seq_runs = [meas |-> 0, hip |-> 0]
    /\ executions = 0
    /\ hw_touched = FALSE
    /\ run_seq = 0
    /\ tester = [t \in Testers |-> IdleTester]
    /\ bench = NoCall

\* ------------------------------------------------------------- orchestrator
\* TestRunner._reset_hardware: all_off when there is a relay driver, then
\* hipot_test_seq.open_relay() when there is a hipot driver and a sequence
reset_hardware(r) ==
    LET r1 == IF relay_driver THEN all_off(r) ELSE r
    IN  IF hipot_driver /\ hipot_test_seq THEN open_all_relays(r1) ELSE r1

\* run_measuring, simulated readings 6.0, 7.0, 6.0 on both sides (in hundredths)
\* judged against the configured range, or against the (208, 7000) entry when
\* no configuration is stored
simulated_measuring(cfg) ==
    LET rmin == IF cfg.present THEN cfg.rmin ELSE RESISTANCE_RANGE(208, 7000)[1]
        rmax == IF cfg.present THEN cfg.rmax ELSE RESISTANCE_RANGE(208, 7000)[2]
    IN  \A val \in {600, 700} : val # 0 /\ rmin <= val /\ val <= rmax

\* run_measuring, real branch: the range handed to run_test. The stored
\* range is used unless it is missing or (0.0, 0.0); then the table is looked
\* up with the stored (voltage, wattage), or with (208, 7000) when that key is
\* not in the table
measuring_range(cfg) ==
    LET stored == cfg.present /\ <<cfg.rmin, cfg.rmax>> # <<0, 0>>
        in_table == cfg.present /\ RESISTANCE_RANGE(cfg.voltage, cfg.wattage) # <<0, 0>>
        key == IF in_table THEN <<cfg.voltage, cfg.wattage>> ELSE <<208, 7000>>
    IN  IF stored THEN Range(cfg.rmin, cfg.rmax)
        ELSE Range(RESISTANCE_RANGE(key[1], key[2])[1], RESISTANCE_RANGE(key[1], key[2])[2])

\* TestRunner.run_measuring: decided by self.simulate and by the presence of
\* the measurement sequence; m is what the sequence's run_test returns (an
\* exception of the sequence is a failed attempt)
run_measuring(r, m) ==
    IF simulate
    THEN [relays |-> r, passed |-> simulated_measuring(selected_config), hw |-> FALSE,
          simulated |-> TRUE,
          msg |-> [text |-> IF simulated_measuring(selected_config)
                            THEN "All measurements within limits"
                            ELSE "Some measurements out of range",
                   points |-> {}]]
    ELSE IF ~measurement_test_seq
    THEN [relays |-> r, passed |-> FALSE, hw |-> FALSE, simulated |-> FALSE,
          msg |-> [text |-> "Measurement hardware not available", points |-> {}]]
    ELSE IF m.raised
    THEN [relays |-> m.relays, passed |-> FALSE, hw |-> TRUE, simulated |-> FALSE,
          msg |-> [text |-> "str(e)", points |-> {}]]
    ELSE [relays |-> m.relays, passed |-> m.passed, hw |-> TRUE, simulated |-> FALSE,
          msg |-> m.msg]

\* variant: only 480 V selects the second stored profile
select_hypot_file_index_480_only(cfg) ==
    IF cfg.present /\ cfg.voltage = 480 THEN 2 ELSE 1

\* TestRunner._select_hypot_file_index: FL 2 for 440 V and 480 V, FL 1 otherwise
select_hypot_file_index(cfg) ==
    IF cfg.present /\ cfg.voltage \in {440, 480} THEN 2 ELSE 1

\* TestRunner.run_hipot: simulated pass, or "hardware not available", or the
\* sequence; an exception of the sequence is caught and is a failed attempt
run_hipot(r, sim, keep, fault, verdict) ==
    IF sim
    THEN [relays |-> r, passed |-> TRUE, hw |-> FALSE, simulated |-> TRUE,
          msg |-> "Simulated Hipot PASS", file_index |-> 0]
    ELSE IF ~hipot_test_seq
    THEN [relays |-> r, passed |-> FALSE, hw |-> FALSE, simulated |-> FALSE,
          msg |-> "Hipot hardware not available", file_index |-> 0]
    ELSE LET h == run_hipot_test(r, keep, fault, verdict)
         IN  [relays |-> h.relays, passed |-> (~h.raised /\ h.passed), hw |-> TRUE,
              simulated |-> FALSE,
              msg |-> IF h.raised THEN "Exception" ELSE "raw_result",
              file_index |-> select_hypot_file_index(selected_config)]

\* simulate_for_run = should_use_simulate_mode(wo, pn) or self.simulate
simulate_for_run == should_use_simulate_mode(wo, pn) \/ simulate

\* the log module's state as one value, and the directories a write reaches
LogState == [cs |-> current_session, fs |-> fs]

Writable == Accessible(mirror_up)

Returned(ok, msg) == [kind |-> "returned", ok |-> ok, msg |-> msg]

\* run_full_sequence after _run_normal_sequence / _run_demo_sequence returned
\* (ok, msg): finalize_session(ok, "Mode: <mode> | <msg>"), return ok, msg
finish_run(L, ok, msg) ==
    LET mode == IF is_demo_identity(wo, pn) THEN "demo" ELSE "normal"
        L2 == finalize_session(L, ok, mode, msg, Writable)
    IN  /\ current_session' = L2.cs
        /\ fs' = L2.fs
        /\ ret' = Returned(ok, msg)
        /\ pc' = "idle"

\* run_full_sequence, lines 402-408: no configuration stored and the operator
\* cancels the dialog
ConfigCancelled(w, p) ==
    /\ pc = "idle" /\ runs < MaxRuns
    /\ ~selected_config.present
    /\ returns_on_cancel("cancelled")
    /\ dialog' = "cancelled"
    /\ wo' = w /\ pn' = p
    /\ runs' = runs + 1
    /\ ret' = Returned(FALSE, "Operator cancelled configuration")
    /\ hw_touched' = FALSE /\ run_seq' = 0
    /\ seq_runs' = [meas |-> 0, hip |-> 0]
    /\ UNCHANGED <<runner_vars, selected_config, relays, pc, attempt, meas_ok, hip_ok,
                   current_session, fs, mirror_up, executions, tester, bench>>

\* run_full_sequence up to start_test_session: the stored configuration is
\* used when there is one; otherwise the dialog is shown and d is how it ended
enter(w, p, d) ==
    /\ pc = "idle" /\ runs < MaxRuns
    /\ IF selected_config.present
       THEN /\ d.result = "none"
            /\ dialog' = "none"
            /\ selected_config' = selected_config
       ELSE /\ d.result # "none"
            /\ ~returns_on_cancel(d.result)
            /\ dialog' = d.result
            /\ selected_config' = d.cfg
    /\ wo' = w /\ pn' = p
    /\ runs' = runs + 1
    /\ hw_touched' = FALSE
    /\ seq_runs' = [meas |-> 0, hip |-> 0]
    /\ attempt' = 0 /\ meas_ok' = FALSE /\ hip_ok' = FALSE
    /\ UNCHANGED <<runner_vars, relays, mirror_up, executions, tester, bench>>

\* run_full_sequence with the demo identity: start_test_session,
\* _run_demo_sequence (no hardware, no prompt), finalize_session
RunDemo(w, p, d) ==
    /\ is_demo_identity(w, p)
    /\ enter(w, p, d)
    /\ LET L1 == start_test_session(LogState, mirror_up, Writable)
           L2 == finalize_session(L1, TRUE, "demo", "DEMO sequence complete. This did not exercise real hardware.", Writable)
       IN  /\ run_seq' = L1.cs.seq
           /\ current_session' = L2.cs
           /\ fs' = L2.fs
    /\ ret' = Returned(TRUE, "DEMO sequence complete. This did not exercise real hardware.")
    /\ pc' = "idle"

\* run_full_sequence with any other identity: start_test_session, then
\* _run_normal_sequence up to the ready prompt (ui.hypot_ready() returned)
BeginNormal(w, p, d) ==
    /\ ~is_demo_identity(w, p)
    /\ enter(w, p, d)
    /\ LET L1 == start_test_session(LogState, mirror_up, Writable)
       IN  /\ run_seq' = L1.cs.seq
           /\ current_session' = L1.cs
           /\ fs' = L1.fs
    /\ ret' = [kind |-> "none", ok |-> FALSE, msg |-> "-"]
    /\ pc' = "ready"

\* the same, with ui.hypot_ready() raising at the head of _run_normal_sequence:
\* the exception leaves run_full_sequence
BeginNormalRaises(w, p, d) ==
    /\ ~is_demo_identity(w, p)
    /\ enter(w, p, d)
    /\ LET L1 == start_test_session(LogState, mirror_up, Writable)
       IN  /\ run_seq' = L1.cs.seq
           /\ current_session' = L1.cs
           /\ fs' = L1.fs
    /\ ret' = [kind |-> "raised", ok |-> FALSE, msg |-> "-"]
    /\ pc' = "idle"

\* what every step inside one invocation leaves alone
frame == UNCHANGED <<runner_vars, selected_config, dialog, wo, pn, mirror_up, runs, run_seq, tester,
                   bench>>

\* the ready prompt: ContinueExitDialog.show_prompt, or ui.confirm_ready_to_test
\* when the widget is missing. Exit resets the hardware on the dialog path only.
ReadyPrompt(continue) ==
    /\ pc = "ready"
    /\ frame
    /\ UNCHANGED <<attempt, meas_ok, hip_ok, seq_runs, executions>>
    /\ IF continue
       THEN /\ executions + 2 <= MaxExecutions
            /\ pc' = "measuring"
            /\ UNCHANGED <<relays, hw_touched, current_session, fs, ret>>
       ELSE /\ relays' = IF ContinueExitDialog THEN reset_hardware(relays) ELSE relays
            /\ hw_touched' = (hw_touched \/ (ContinueExitDialog /\ relay_driver))
            /\ finish_run(LogState, FALSE, "Operator cancelled before starting tests")

\* variant: the measurement loop is left after any attempt
after_measurement_attempt_any(passed) == "hipot"

\* where the measurement loop goes after an attempt: a pass breaks out of the
\* loop into the hipot phase, a fail prompts the operator
after_measurement_attempt(passed) == IF passed THEN "hipot" ELSE "measuring_prompt"

\* one pass of the measurement loop up to its prompt: run_measuring, then
\* log_measurement_result; a pass leaves the loop (attempt = 0 for the hipot loop)
MeasurementAttempt(verdict, raises, touched) ==
    /\ pc = "measuring"
    /\ frame
    /\ LET m == run_measuring(relays, IF raises THEN measurement_raises(relays, touched)
                                      ELSE measurement_run_test(relays, verdict))
           L == log_measurement_result(LogState, m.passed, Writable)
       IN  /\ relays' = m.relays
           /\ hw_touched' = (hw_touched \/ m.hw)
           /\ meas_ok' = m.passed
           /\ current_session' = L.cs
           /\ fs' = L.fs
           /\ pc' = after_measurement_attempt(m.passed)
           /\ attempt' = IF m.passed THEN 0 ELSE attempt
    /\ seq_runs' = [seq_runs EXCEPT !.meas = @ + 1]
    /\ executions' = executions + 1
    /\ UNCHANGED <<hip_ok, ret>>

\* the prompt after a failed measurement: Continue retries (attempt += 1), Exit
\* returns; the hardware is reset on the dialog path only
MeasurementPrompt(continue) ==
    /\ pc = "measuring_prompt"
    /\ frame
    /\ UNCHANGED <<meas_ok, hip_ok, seq_runs, executions>>
    /\ IF continue
       THEN /\ executions + 2 <= MaxExecutions
            /\ attempt' = attempt + 1
            /\ pc' = "measuring"
            /\ UNCHANGED <<relays, hw_touched, current_session, fs, ret>>
       ELSE /\ relays' = IF ContinueExitDialog THEN reset_hardware(relays) ELSE relays
            /\ hw_touched' = (hw_touched \/ (ContinueExitDialog /\ relay_driver))
            /\ attempt' = attempt
            /\ finish_run(LogState, FALSE, "Measuring failed (operator cancelled)")

\* variant: the three-way dialog is shown after a failed attempt only
after_hipot_attempt_fail_only(passed) ==
    IF passed THEN "passed"
    ELSE IF ContinueRetryExitDialog THEN "hipot_prompt" ELSE "hipot_confirm"

\* where the hipot loop goes after the attempt at its head: the three-way
\* dialog; without the widget, out of the loop on a pass and to
\* ui.confirm_retry_test on a fail
after_hipot_attempt(passed) ==
    IF ContinueRetryExitDialog THEN "hipot_prompt"
    ELSE IF passed THEN "passed" ELSE "hipot_confirm"

\* the head of the hipot loop: run_hipot(keep_relay_closed=True), then
\* log_hipot_result
HipotAttempt(fault, verdict) ==
    /\ pc = "hipot"
    /\ frame
    /\ LET h == run_hipot(relays, simulate_for_run, TRUE, fault, verdict)
           L == log_hipot_result(LogState, h.passed, Writable)
       IN  /\ relays' = h.relays
           /\ hw_touched' = (hw_touched \/ h.hw)
           /\ hip_ok' = h.passed
           /\ current_session' = L.cs
           /\ fs' = L.fs
           /\ pc' = after_hipot_attempt(h.passed)
    /\ seq_runs' = [seq_runs EXCEPT !.hip = @ + 1]
    /\ executions' = executions + 1
    /\ UNCHANGED <<attempt, meas_ok, ret>>

\* where the loop goes when the re-run made after CONTINUE on a failure fails
\* again: `continue`, that is the head of the loop
after_continue_rerun_failed == "hipot"

\* the three-way dialog. RETRY: attempt += 1, head of the loop. CONTINUE after a
\* pass: out of the loop. CONTINUE after a fail: attempt += 1 and the re-run of
\* lines 614-619. EXIT: _reset_hardware and return.
HipotPrompt(choice) ==
    /\ pc = "hipot_prompt"
    /\ frame
    /\ UNCHANGED <<meas_ok, hip_ok, seq_runs, executions>>
    /\ CASE choice = "RETRY" ->
              /\ executions + 1 <= MaxExecutions
              /\ attempt' = attempt + 1
              /\ pc' = "hipot"
              /\ UNCHANGED <<relays, hw_touched, current_session, fs, ret>>
         [] choice = "CONTINUE" /\ hip_ok ->
              /\ pc' = "passed"
              /\ UNCHANGED <<attempt, relays, hw_touched, current_session, fs, ret>>
         [] choice = "CONTINUE" /\ ~hip_ok ->
              /\ executions + 2 <= MaxExecutions
              /\ attempt' = attempt + 1
              /\ pc' = "hipot_continue"
              /\ UNCHANGED <<relays, hw_touched, current_session, fs, ret>>
         [] OTHER ->
              /\ relays' = reset_hardware(relays)
              /\ hw_touched' = (hw_touched \/ relay_driver)
              /\ attempt' = attempt
              /\ finish_run(LogState, FALSE, "Hipot failed (operator cancelled)")

\* the re-run made after CONTINUE on a failure: run_hipot, log_hipot_result;
\* a pass leaves the loop, a fail executes `continue`
HipotContinueRerun(fault, verdict) ==
    /\ pc = "hipot_continue"
    /\ frame
    /\ LET h == run_hipot(relays, simulate_for_run, TRUE, fault, verdict)
           L == log_hipot_result(LogState, h.passed, Writable)
       IN  /\ relays' = h.relays
           /\ hw_touched' = (hw_touched \/ h.hw)
           /\ hip_ok' = h.passed
           /\ current_session' = L.cs
           /\ fs' = L.fs
           /\ pc' = IF h.passed THEN "passed" ELSE after_continue_rerun_failed
    /\ seq_runs' = [seq_runs EXCEPT !.hip = @ + 1]
    /\ executions' = executions + 1
    /\ UNCHANGED <<attempt, meas_ok, ret>>

\* the relays after the operator declines ui.confirm_retry_test("Hipot"):
\* hipot_test_seq.open_relay() when there is a sequence
hipot_fallback_exit(r) == IF hipot_test_seq THEN open_all_relays(r) ELSE r

\* the hipot loop without the three-way widget, after a failed attempt:
\* ui.confirm_retry_test; Retry: attempt += 1; Cancel: open_relay and return
HipotConfirmRetry(retry) ==
    /\ pc = "hipot_confirm"
    /\ frame
    /\ UNCHANGED <<meas_ok, hip_ok, seq_runs, executions>>
    /\ IF retry
       THEN /\ executions + 1 <= MaxExecutions
            /\ attempt' = attempt + 1
            /\ pc' = "hipot"
            /\ UNCHANGED <<relays, hw_touched, current_session, fs, ret>>
       ELSE /\ relays' = hipot_fallback_exit(relays)
            /\ hw_touched' = (hw_touched \/ hipot_test_seq)
            /\ attempt' = attempt
            /\ finish_run(LogState, FALSE, "Hipot failed (operator cancelled)")

\* both phases passed: TestPassedDialog, _reset_hardware, return True
Success ==
    /\ pc = "passed"
    /\ frame
    /\ relays' = reset_hardware(relays)
    /\ hw_touched' = (hw_touched \/ relay_driver)
    /\ UNCHANGED <<attempt, meas_ok, hip_ok, seq_runs, executions>>
    /\ finish_run(LogState, TRUE, "Hipot + Measuring completed successfully")

Next ==
    \/ \E id \in Identities : ConfigCancelled(id[1], id[2])
    \/ \E id \in Identities, d \in DialogOutcomes : RunDemo(id[1], id[2], d)
    \/ \E id \in Identities, d \in DialogOutcomes : BeginNormal(id[1], id[2], d)
    \/ \E id \in Identities, d \in DialogOutcomes : BeginNormalRaises(id[1], id[2], d)
    \/ \E c \in BOOLEAN : ReadyPrompt(c)
    \/ \E v \in BOOLEAN, raises \in BOOLEAN, touched \in BOOLEAN :
            MeasurementAttempt(v, raises, touched)
    \/ \E c \in BOOLEAN : MeasurementPrompt(c)
    \/ \E f \in HipotFaults, v \in BOOLEAN : HipotAttempt(f, v)
    \/ \E c \in {"CONTINUE", "RETRY", "EXIT"} : HipotPrompt(c)
    \/ \E f \in HipotFaults, v \in BOOLEAN : HipotContinueRerun(f, v)
    \/ \E r \in BOOLEAN : HipotConfirmRetry(r)
    \/ Success

Spec == Init /\ [][Next]_vars

\* ------------------------------------------- two testers creating sessions
\* the log directories before the testers start: files 1..n in both places
Preexisting(n) ==
    [d \in Dirs |-> [k \in 1..n |-> <<Line("header", k, 0, "-", "-", "-")>>]]

\* a finished session file written by another tester: header and summary
ForeignFile(k) ==
    <<Line("header", k, 0, "-", "-", "-"),
      Line("summary", 0, 0, "PASS", "normal", "Hipot + Measuring completed successfully")>>

\* the directories when this tester starts: its local directory holds only
\* its own results (none yet), the shared mirror holds those of all testers
ForeignFiles(n) ==
    [d \in Dirs |-> IF d \in MIRROR_LOG_PATHS THEN [k \in 1..n |-> ForeignFile(k)] ELSE <<>>]

SeqInit ==
    /\ simulate = FALSE
    /\ relay_driver = TRUE /\ hipot_driver = TRUE /\ meter_driver = TRUE
    /\ ContinueExitDialog = TRUE /\ ContinueRetryExitDialog = TRUE
    /\ selected_config = NoCfg
    /\ dialog = "none"
    /\ relays = AllOpen
    /\ pc = "idle"
    /\ wo = "" /\ pn = ""
    /\ attempt = 0
    /\ meas_ok = FALSE /\ hip_ok = FALSE
    /\ current_session = NoSession
    /\ \E n \in 0..MaxPreexisting : fs \in {Preexisting(n), ForeignFiles(n)}
    /\ mirror_up \in BOOLEAN
    /\ ret = [kind |-> "none", ok |-> FALSE, msg |-> "-"]
    /\ runs = 0
    /\ seq_runs = [meas |-> 0, hip |-> 0]
    /\ executions = 0
    /\ hw_touched = FALSE
    /\ run_seq = 0
    /\ tester = [t \in Testers |-> IdleTester]
    /\ bench = NoCall

orchestrator_vars ==
    <<runner_vars, selected_config, dialog, relays, pc, wo, pn, attempt, meas_ok,
      hip_ok, current_session, ret, runs, seq_runs, executions, hw_touched, run_seq,
      bench>>

\* TestSession.__init__ entered; _get_next_sequence_number, first loop: the
\* files of the mirror location are listed when it is reachable
ScanMirror(t) ==
    /\ tester[t].pc = "idle"
    /\ Len(tester[t].made) < MaxSessions
    /\ tester' = [tester EXCEPT ![t].pc = "scan_local",
                                ![t].max_num = IF mirror_up THEN scan_max(fs, "mirror") ELSE 0]
    /\ UNCHANGED <<orchestrator_vars, fs, mirror_up>>

\* _get_next_sequence_number: the local directory is listed,
\* candidate = max_num + 1
ScanLocal(t) ==
    /\ tester[t].pc = "scan_local"
    /\ LET m == Max({tester[t].max_num, scan_max(fs, "local")})
       IN  tester' = [tester EXCEPT ![t].pc = "probe", ![t].max_num = m,
                                    ![t].candidate = m + 1]
    /\ UNCHANGED <<orchestrator_vars, fs, mirror_up>>

\* _get_next_sequence_number, one pass of `while True`: a candidate in use is
\* stepped over, a free one is returned
Probe(t) ==
    /\ tester[t].pc = "probe"
    /\ tester' = IF in_use(fs, mirror_up, tester[t].candidate)
                 THEN [tester EXCEPT ![t].candidate = @ + 1]
                 ELSE [tester EXCEPT ![t].pc = "write_header",
                                     ![t].seq = tester[t].candidate]
    /\ UNCHANGED <<orchestrator_vars, fs, mirror_up>>

\* TestSession.__init__, the rest: the header is written (mode "w") to the
\* local file and to the mirror file when the mirror is reachable
WriteHeader(t) ==
    /\ tester[t].pc = "write_header"
    /\ fs' = write_header(fs, TestSession(tester[t].seq), Writable)
    /\ tester' = [tester EXCEPT ![t].pc = "idle",
                                ![t].made = Append(@, tester[t].seq)]
    /\ UNCHANGED <<orchestrator_vars, mirror_up>>

\* the network share becomes unreachable, or reachable again
MirrorChanges ==
    /\ mirror_up' = ~mirror_up
    /\ UNCHANGED <<orchestrator_vars, fs, tester>>

SeqNext ==
    \/ \E t \in Testers : ScanMirror(t)
    \/ \E t \in Testers : ScanLocal(t)
    \/ \E t \in Testers : Probe(t)
    \/ \E t \in Testers : WriteHeader(t)
    \/ MirrorChanges

SeqSpec == SeqInit /\ [][SeqNext]_vars

\* ----------------------------------------------- the session log on its own
LogInit ==
    /\ simulate = FALSE
    /\ relay_driver = TRUE /\ hipot_driver = TRUE /\ meter_driver = TRUE
    /\ ContinueExitDialog = TRUE /\ ContinueRetryExitDialog = TRUE
    /\ selected_config = NoCfg
    /\ dialog = "none"
    /\ relays = AllOpen
    /\ pc = "idle"
    /\ wo = "" /\ pn = ""
    /\ attempt = 0
    /\ meas_ok = FALSE /\ hip_ok = FALSE
    /\ current_session = NoSession
    /\ \E n \in 0..MaxPreexisting : fs = ForeignFiles(n)
    /\ mirror_up \in BOOLEAN
    /\ ret = [kind |-> "none", ok |-> FALSE, msg |-> "-"]
    /\ runs = 0
    /\ seq_runs = [meas |-> 0, hip |-> 0]
    /\ executions = 0
    /\ hw_touched = FALSE
    /\ run_seq = 0
    /\ tester = [t \in Testers |-> IdleTester]
    /\ bench = NoCall

\* what a call of the log module leaves alone
log_frame ==
    UNCHANGED <<runner_vars, selected_config, dialog, relays, pc, wo, pn, attempt,
                meas_ok, hip_ok, mirror_up, ret, seq_runs, hw_touched, tester,
                bench>>

\* a call of start_test_session
CallStart ==
    /\ executions < MaxLogCalls
    /\ LET L == start_test_session(LogState, mirror_up, Writable)
       IN  /\ current_session' = L.cs
           /\ fs' = L.fs
           /\ run_seq' = L.cs.seq
    /\ runs' = runs + 1
    /\ executions' = executions + 1
    /\ log_frame

\* a call of log_hipot_result
CallLogHipot(passed) ==
    /\ executions < MaxLogCalls
    /\ LET L == log_hipot_result(LogState, passed, Writable)
       IN  /\ current_session' = L.cs
           /\ fs' = L.fs
    /\ executions' = executions + 1
    /\ UNCHANGED <<runs, run_seq>>
    /\ log_frame

\* a call of log_measurement_result
CallLogMeasurement(passed) ==
    /\ executions < MaxLogCalls
    /\ LET L == log_measurement_result(LogState, passed, Writable)
       IN  /\ current_session' = L.cs
           /\ fs' = L.fs
    /\ executions' = executions + 1
    /\ UNCHANGED <<runs, run_seq>>
    /\ log_frame

\* a call of finalize_session
CallFinalize(overall_pass) ==
    /\ executions < MaxLogCalls
    /\ LET L == finalize_session(LogState, overall_pass, "normal", "-", Writable)
       IN  /\ current_session' = L.cs
           /\ fs' = L.fs
    /\ executions' = executions + 1
    /\ UNCHANGED <<runs, run_seq>>
    /\ log_frame

LogNext ==
    \/ CallStart
    \/ \E p \in BOOLEAN : CallLogHipot(p)
    \/ \E p \in BOOLEAN : CallLogMeasurement(p)
    \/ \E p \in BOOLEAN : CallFinalize(p)
    \/ MirrorChanges

LogSpec == LogInit /\ [][LogNext]_vars

\* --------------------------------------------- the sequencers on the bench
\* a constructed runner whose sequencers and orchestrator steps are called
\* one after the other, with every parameter and every hardware outcome

\* the configuration stored on the bench: none, or one the dialog can give
BenchConfigs ==
    {NoCfg} \cup {get_configuration(c[1], c[2]) :
                     c \in DialogChoices \cup {<<240, 7000>>, <<480, 7000>>}}

BenchInit ==
    /\ simulate \in BOOLEAN
    /\ \E failed \in (IF simulate THEN {{"relay", "hipot", "meter"}}
                      ELSE {{}, {"relay"}, {"hipot"}, {"meter"}}) :
          /\ relay_driver = ("relay" \notin failed)
          /\ hipot_driver = ("hipot" \notin failed)
          /\ meter_driver = ("meter" \notin failed)
    /\ ContinueExitDialog = TRUE
    /\ ContinueRetryExitDialog = TRUE
    /\ selected_config \in BenchConfigs
    /\ dialog = "none"
    /\ relays = AllOpen
    /\ pc = "idle"
    /\ wo = "" /\ pn = ""
    /\ attempt = 0
    /\ meas_ok = FALSE /\ hip_ok = FALSE
    /\ current_session = NoSession
    /\ fs = EmptyFs
    /\ mirror_up = TRUE
    /\ ret = [kind |-> "none", ok |-> FALSE, msg |-> "-"]
    /\ runs = 0
    /\ seq_runs = [meas |-> 0, hip |-> 0]
    /\ executions = 0
    /\ hw_touched = FALSE
    /\ run_seq = 0
    /\ tester = [t \in Testers |-> IdleTester]
    /\ bench = NoCall

\* what a call on the bench leaves alone
bench_frame ==
    UNCHANGED <<runner_vars, selected_config, dialog, pc, wo, pn, attempt, meas_ok,
                hip_ok, current_session, fs, mirror_up, ret, runs, seq_runs,
                executions, hw_touched, run_seq, tester>>

\* HipotTestSequence.run_test -> run_hipot_test with either value of
\* keep_relay_closed; an exception leaves the function (raised)
CallRunHipotTest(keep, fault, verdict) ==
    /\ hipot_test_seq
    /\ LET h == run_hipot_test(relays, keep, fault, verdict)
       IN  /\ relays' = h.relays
           /\ bench' = [op |-> "run_hipot_test", keep |-> keep, fault |-> fault,
                        passed |-> h.passed, raised |-> h.raised]
    /\ bench_frame

\* TestRunner.run_hipot as _run_normal_sequence calls it for identity id:
\* simulate = simulate_for_run, keep_relay_closed = True
CallRunHipot(id, fault, verdict) ==
    /\ LET sim == should_use_simulate_mode(id[1], id[2]) \/ simulate
           h == run_hipot(relays, sim, TRUE, fault, verdict)
       IN  /\ relays' = h.relays
           /\ bench' = [op |-> "run_hipot", wo |-> id[1], pn |-> id[2], fault |-> fault,
                        passed |-> h.passed, msg |-> h.msg, hw |-> h.hw,
                        simulated |-> h.simulated, file_index |-> h.file_index]
    /\ bench_frame

\* the ranges run_test is given: none, or one of the table for a stored
\* configuration
MeasuringRanges == {NoRange} \cup {measuring_range(c) : c \in Configs}

\* MeasurementTestSequence.run_test with a range and the outcome of each point
CallRunTest(resistance_range, outcomes) ==
    /\ measurement_test_seq
    /\ LET m == run_test(relays, resistance_range, outcomes)
       IN  /\ relays' = m.relays
           /\ bench' = [op |-> "run_test", resistance_range |-> resistance_range,
                        outcomes |-> outcomes, passed |-> m.passed, msg |-> m.msg,
                        values |-> m.values]
    /\ bench_frame

\* TestRunner.run_measuring with the stored configuration; its work_order and
\* part_number arguments are only logged
CallRunMeasuring(outcomes) ==
    /\ LET resistance_range == measuring_range(selected_config)
           m == run_measuring(relays, run_test(relays, resistance_range, outcomes))
       IN  /\ relays' = m.relays
           /\ bench' = [op |-> "run_measuring", outcomes |-> outcomes, passed |-> m.passed, msg |-> m.msg,
                        hw |-> m.hw, simulated |-> m.simulated]
    /\ bench_frame

\* HipotProcedures.run_from_file with the instrument answering result
CallRunFromFile(result) ==
    /\ hipot_driver
    /\ bench' = [op |-> "run_from_file", result |-> result,
                 passed |-> run_from_file(result)]
    /\ UNCHANGED relays
    /\ bench_frame

BenchNext ==
    \/ \E keep \in BOOLEAN, fault \in HipotFaults, verdict \in BOOLEAN :
          CallRunHipotTest(keep, fault, verdict)
    \/ \E id \in Identities, fault \in HipotFaults, verdict \in BOOLEAN :
          CallRunHipot(id, fault, verdict)
    \/ \E rr \in MeasuringRanges, o \in [Points -> PointOutcomes] : CallRunTest(rr, o)
    \/ \E o \in [Points -> PointOutcomes] : CallRunMeasuring(o)
    \/ \E result \in RawResults : CallRunFromFile(result)

BenchSpec == BenchInit /\ [][BenchNext]_vars

\* --------------------------------------------------- the relay driver alone
\* the relay board driven through ERB08Driver, one call after the other
RelayInit == Init /\ ~simulate /\ relay_driver

relay_frame ==
    UNCHANGED <<runner_vars, selected_config, dialog, pc, wo, pn, attempt, meas_ok,
                hip_ok, current_session, fs, mirror_up, ret, runs, seq_runs,
                executions, hw_touched, run_seq, tester>>

\* ERB08Driver.set_relay(bit, on)
DriverSetRelay(bit, on) ==
    /\ relays' = set_relay(relays, bit, on)
    /\ bench' = [op |-> "set_relay", raised |-> FALSE, before |-> relays]
    /\ relay_frame

\* ERB08Driver.all_off() returning normally
DriverAllOff ==
    /\ relays' = all_off(relays)
    /\ bench' = [op |-> "all_off", raised |-> FALSE, before |-> relays]
    /\ relay_frame

\* ERB08Driver.all_off() raising ERB08Error: the write of channel `relay`
\* failed, the channels before it have been driven off
DriverAllOffRaises(relay) ==
    /\ relays' = cmd_all_off(relays, 0, relay - 1)
    /\ bench' = [op |-> "all_off", raised |-> TRUE, before |-> relays]
    /\ relay_frame

RelayNext ==
    \/ \E bit \in Channels, on \in BOOLEAN : DriverSetRelay(bit, on)
    \/ DriverAllOff
    \/ \E relay \in Channels : DriverAllOffRaises(relay)

RelaySpec == RelayInit /\ [][RelayNext]_vars

\* ------------------------------------------- the sequencers, step by step
\* one sequencer call at a time on real hardware, every relay-driver and
\* instrument operation a step of its own that returns or raises

StepInit == Init /\ ~simulate /\ relay_driver /\ hipot_driver /\ meter_driver

\* no sequencer call is under way
Idle == IF bench.op \in {"run_test", "run_hipot_test"} /\ "at" \in DOMAIN bench
        THEN bench.at \in {"returned", "raised"} ELSE TRUE

\* ERB08Driver.close_pin1to6 / close_pin2to5 / close_pin3to4: the relays set
\* after all_off(), in the order of the set_relay calls
close_relays(point) ==
    CASE point = 1 -> <<4>>
      [] point = 2 -> <<0, 4, 1>>
      [] point = 3 -> <<2, 3>>

\* all_off() as one step: it returns (failed_at = 8) or raises at the write
\* of channel failed_at, with the channels before it driven off
AllOffOutcomes == 0..8

all_off_step(r, failed_at) == IF failed_at = 8 THEN all_off(r) ELSE cmd_all_off(r, 0, failed_at - 1)

\* MeasurementTestSequence.run_test is called
StartMeasurement ==
    /\ Idle
    /\ bench' = [op |-> "run_test", at |-> "all_off", point |-> 0, k |-> 0,
                 polls |-> 0, elapsed |-> 0, polled_at |-> 0, reading_valid |-> FALSE,
                 left_vals |-> <<>>]
    /\ UNCHANGED relays
    /\ relay_frame

\* run_test, lines 163-173: all_off() before the first position; a failure
\* is logged and the sequence goes on
MeasurementAllOff(failed_at) ==
    /\ bench.op = "run_test" /\ bench.at = "all_off"
    /\ relays' = all_off_step(relays, failed_at)
    /\ bench' = [bench EXCEPT !.at = "close_all_off", !.point = 1]
    /\ relay_frame

\* variant: close_pin does not open the other relays first
close_func_all_off_skipped(r, failed_at) == r

\* close_pin*: self.all_off() at the head of close_func
close_func_all_off(r, failed_at) == all_off_step(r, failed_at)

\* close_func, first part: all_off(); raising ends close_func with ERB08Error
CloseAllOff(failed_at) ==
    /\ bench.op = "run_test" /\ bench.at = "close_all_off"
    /\ relays' = close_func_all_off(relays, failed_at)
    /\ bench' = [bench EXCEPT !.at = IF failed_at = 8 THEN "close_set" ELSE "emergency_open",
                              !.k = 1]
    /\ relay_frame

\* close_func, the set_relay calls one by one; a raising call leaves the
\* relay as it was and ends close_func with ERB08Error
CloseSetRelay(raises) ==
    /\ bench.op = "run_test" /\ bench.at = "close_set"
    /\ LET seq == close_relays(bench.point)
       IN  IF raises
           THEN /\ UNCHANGED relays
                /\ bench' = [bench EXCEPT !.at = "emergency_open"]
           ELSE /\ relays' = set_relay(relays, seq[bench.k], TRUE)
                /\ bench' = IF bench.k = Len(seq)
                            THEN [bench EXCEPT !.at = "read"]
                            ELSE [bench EXCEPT !.k = @ + 1]
    /\ relay_frame

\* flush_buffer before the reading loop of one position: it returns, and
\* start_time is taken, or it raises
FlushPosition(raises) ==
    /\ bench.op = "run_test" /\ bench.at = "read"
    /\ bench' = IF raises THEN [bench EXCEPT !.at = "emergency_open"]
                ELSE [bench EXCEPT !.at = "poll", !.polls = 0, !.elapsed = 0, !.polled_at = 0,
                                   !.reading_valid = FALSE]
    /\ UNCHANGED relays
    /\ relay_frame

\* max_attempts of the reading loop
max_attempts == 10

\* timeout_per_position_s as run_measuring passes it, in seconds
timeout_per_position_s == 30

\* how long read_value and the 0.5 s sleep of one round take together, in
\* whole seconds
PollSeconds == {1, 15}

\* variant: the loop is left on the timeout only
loop_ends_on_timeout_only(polls, elapsed) == elapsed >= timeout_per_position_s

\* the reading loop is over without a reading: range(max_attempts) is used
\* up, or elapsed >= timeout_per_position_s at the head of a round
loop_ends(polls, elapsed) == polls = max_attempts \/ elapsed >= timeout_per_position_s

\* one round of the reading loop, lines 269-319, and what follows a loop
\* that ends without a reading, lines 358-362: 0.0 is recorded. read_value
\* gives a valid reading, or none (None, no value, or it raised)
PollMeter(valid, seconds) ==
    /\ bench.op = "run_test" /\ bench.at = "poll"
    /\ bench' = IF loop_ends(bench.polls, bench.elapsed)
                THEN [bench EXCEPT !.at = "open", !.left_vals = Append(@, 0)]
                ELSE IF valid
                THEN [bench EXCEPT !.at = "open", !.polls = @ + 1,
                                   !.polled_at = bench.elapsed, !.reading_valid = TRUE,
                                   !.left_vals = Append(@, round1(984))]
                ELSE [bench EXCEPT !.polls = @ + 1, !.polled_at = bench.elapsed,
                                   !.elapsed = @ + seconds]
    /\ UNCHANGED relays
    /\ relay_frame

\* the position after this one, or the end of run_test
after_position(b) ==
    IF b.point = 3 THEN [b EXCEPT !.at = "returned"]
    ELSE [b EXCEPT !.at = "close_all_off", !.point = @ + 1]

\* open_func (all_off) after the reading, lines 373-377, and the emergency
\* open_func of the except clause, lines 405-409: a failure is swallowed
OpenPosition(failed_at) ==
    /\ bench.op = "run_test" /\ bench.at \in {"open", "emergency_open"}
    /\ relays' = all_off_step(relays, failed_at)
    /\ bench' = after_position(IF bench.at = "emergency_open"
                               THEN [bench EXCEPT !.left_vals = Append(@, 0)] ELSE bench)
    /\ relay_frame

\* run_hipot_test is called
StartHipot(keep) ==
    /\ Idle
    /\ bench' = [op |-> "run_hipot_test", at |-> "all_off", keep |-> keep, done |-> <<>>]
    /\ UNCHANGED relays
    /\ relay_frame

\* run_hipot_test, step 0: all_off(); a failure is logged as a warning and
\* the sequence goes on
HipotAllOff(failed_at) ==
    /\ bench.op = "run_hipot_test" /\ bench.at = "all_off"
    /\ relays' = all_off_step(relays, failed_at)
    /\ bench' = [bench EXCEPT !.at = "reset",
                              !.done = IF failed_at = 8 THEN Append(@, "all_off") ELSE @]
    /\ relay_frame

\* the except clause of run_hipot_test: all_off() when relay_closed and not
\* keep_relay_closed (its own failure is swallowed), then re-raise
hipot_raises(r, b, relay_closed, failed_at) ==
    /\ relays' = IF relay_closed /\ ~b.keep THEN all_off_step(r, failed_at) ELSE r
    /\ bench' = [b EXCEPT !.at = "raised"]

\* step 1: hipot_driver.reset()
HipotReset(raises, failed_at) ==
    /\ bench.op = "run_hipot_test" /\ bench.at = "reset"
    /\ IF raises
       THEN hipot_raises(relays, bench, FALSE, failed_at)
       ELSE /\ bench' = [bench EXCEPT !.at = "close7", !.done = Append(@, "reset")]
            /\ UNCHANGED relays
    /\ relay_frame

\* step 1b: set_relay(7, True), then relay_closed = True
HipotClose7(raises, failed_at) ==
    /\ bench.op = "run_hipot_test" /\ bench.at = "close7"
    /\ IF raises
       THEN hipot_raises(relays, bench, FALSE, failed_at)
       ELSE /\ bench' = [bench EXCEPT !.at = "close6", !.done = Append(@, "close7")]
            /\ relays' = set_relay(relays, 7, TRUE)
    /\ relay_frame

\* step 2: set_relay(6, True)
HipotClose6(raises, failed_at) ==
    /\ bench.op = "run_hipot_test" /\ bench.at = "close6"
    /\ IF raises
       THEN hipot_raises(relays, bench, TRUE, failed_at)
       ELSE /\ bench' = [bench EXCEPT !.at = "run_from_file", !.done = Append(@, "close6")]
            /\ relays' = set_relay(relays, 6, TRUE)
    /\ relay_frame

\* step 3 to the end: run_from_file starts the stored-profile test; then the
\* instrument reset and, unless keep_relay_closed, relays 6 and 7 are opened
HipotRunFromFile(raises, failed_at) ==
    /\ bench.op = "run_hipot_test" /\ bench.at = "run_from_file"
    /\ IF raises
       THEN hipot_raises(relays, bench, TRUE, failed_at)
       ELSE /\ bench' = [bench EXCEPT !.at = "returned", !.done = Append(@, "run_from_file")]
            /\ relays' = IF bench.keep THEN relays
                         ELSE set_relay(set_relay(relays, 6, FALSE), 7, FALSE)
    /\ relay_frame

\* HipotTestSequence.open_relay, that is open_all_relays: set_relay(7,
\* False); all_off() only when that raises, and its failure is swallowed
CallOpenRelay(raises, failed_at) ==
    /\ Idle
    /\ relays' = IF raises THEN all_off_step(relays, failed_at) ELSE open_all_relays(relays)
    /\ bench' = [op |-> "open_relay", raised |-> raises, before |-> relays]
    /\ relay_frame

StepNext ==
    \/ StartMeasurement
    \/ \E f \in AllOffOutcomes : MeasurementAllOff(f)
    \/ \E f \in AllOffOutcomes : CloseAllOff(f)
    \/ \E raises \in BOOLEAN : CloseSetRelay(raises)
    \/ \E raises \in BOOLEAN : FlushPosition(raises)
    \/ \E valid \in BOOLEAN, seconds \in PollSeconds : PollMeter(valid, seconds)
    \/ \E f \in AllOffOutcomes : OpenPosition(f)
    \/ \E keep \in BOOLEAN : StartHipot(keep)
    \/ \E f \in AllOffOutcomes : HipotAllOff(f)
    \/ \E raises \in BOOLEAN, f \in AllOffOutcomes : HipotReset(raises, f)
    \/ \E raises \in BOOLEAN, f \in AllOffOutcomes : HipotClose7(raises, f)
    \/ \E raises \in BOOLEAN, f \in AllOffOutcomes : HipotClose6(raises, f)
    \/ \E raises \in BOOLEAN, f \in AllOffOutcomes : HipotRunFromFile(raises, f)
    \/ \E raises \in BOOLEAN, f \in AllOffOutcomes : CallOpenRelay(raises, f)

\* the steps of run_test after its call: the code runs on from one
\* statement to the next
MeasurementStep ==
    \/ \E f \in AllOffOutcomes : MeasurementAllOff(f)
    \/ \E f \in AllOffOutcomes : CloseAllOff(f)
    \/ \E raises \in BOOLEAN : CloseSetRelay(raises)
    \/ \E raises \in BOOLEAN : FlushPosition(raises)
    \/ \E valid \in BOOLEAN, seconds \in PollSeconds : PollMeter(valid, seconds)
    \/ \E f \in AllOffOutcomes : OpenPosition(f)

StepSpec == StepInit /\ [][StepNext]_vars

\* the same, with a run_test that is under way taking its next step
StepFairSpec == StepSpec /\ WF_vars(MeasurementStep)

\* ------------------------------------------------- the windows of main()
\* the scan window, the configuration dialog and the test window, as main()
\* and the exit paths of run_full_sequence show, hide and close them

\* which windows are visible, whether the callback is installed, and the
\* exit path the last run took
Windows(scan, config, main, callback, path) ==
    [op |-> "windows", scan |-> scan, config |-> config, main |-> main,
     callback |-> callback, path |-> path]

\* main(): the runner is constructed and show_scan_window() is called
WindowInit ==
    /\ simulate \in BOOLEAN
    /\ relay_driver = TRUE /\ hipot_driver = TRUE /\ meter_driver = TRUE
    /\ ContinueExitDialog \in BOOLEAN /\ ContinueRetryExitDialog \in BOOLEAN
    /\ selected_config = NoCfg
    /\ dialog = "none"
    /\ relays = AllOpen
    /\ pc = "scanning"
    /\ wo = "" /\ pn = ""
    /\ attempt = 0
    /\ meas_ok = FALSE /\ hip_ok = FALSE
    /\ current_session = NoSession
    /\ fs = Preexisting(0)
    /\ mirror_up = TRUE
    /\ ret = [kind |-> "none", ok |-> FALSE, msg |-> "-"]
    /\ runs = 0
    /\ seq_runs = [meas |-> 0, hip |-> 0]
    /\ executions = 0
    /\ hw_touched = FALSE
    /\ run_seq = 0
    /\ tester = [t \in Testers |-> IdleTester]
    /\ bench = Windows(TRUE, FALSE, FALSE, FALSE, "none")

\* what the window handling leaves alone
window_frame ==
    UNCHANGED <<runner_vars, dialog, relays, attempt, meas_ok, hip_ok, current_session,
                fs, mirror_up, ret, runs, seq_runs, executions, hw_touched, run_seq,
                tester>>

\* variant: the callback of simulate_hypotfail.py, which shows nothing
return_to_scan_callback_shows_nothing(w) == w

\* show_scan_window, installed as runner._return_to_scan_callback
return_to_scan_callback(w) == [w EXCEPT !.scan = TRUE]

\* on_scan_completed: the scan window is hidden and the configuration
\* dialog is opened
OnScanCompleted(w, p) ==
    /\ pc = "scanning"
    /\ wo' = w /\ pn' = p
    /\ bench' = [bench EXCEPT !.scan = FALSE, !.config = TRUE, !.path = "none"]
    /\ pc' = "configuring"
    /\ UNCHANGED selected_config
    /\ window_frame

\* on_scan_completed, cfg is None: show_scan_window() and return
OnScanCancelled ==
    /\ pc = "configuring"
    /\ bench' = return_to_scan_callback([bench EXCEPT !.config = FALSE])
    /\ pc' = "scanning"
    /\ UNCHANGED <<wo, pn, selected_config>>
    /\ window_frame

\* on_scan_completed, a configuration was chosen: it is stored, the test
\* window is shown, the callback is installed and run_full_sequence is
\* called: the demo sequence for the demo identity, else the ready prompt
OnScanConfigured(c) ==
    /\ pc = "configuring"
    /\ selected_config' = get_configuration(c[1], c[2])
    /\ bench' = [bench EXCEPT !.config = FALSE, !.main = TRUE, !.callback = TRUE]
    /\ pc' = IF is_demo_identity(wo, pn) THEN "demo" ELSE "ready"
    /\ UNCHANGED <<wo, pn>>
    /\ window_frame

\* an exit path of _run_normal_sequence that returns to scanning: the
\* callback, then ui.close()
return_to_scanning(path) ==
    /\ bench' = [bench EXCEPT !.path = path]
    /\ pc' = "callback"

\* an exit path that only returns
only_returns(path) ==
    /\ bench' = [bench EXCEPT !.path = path]
    /\ pc' = "returned"

\* _run_demo_sequence returns, and run_full_sequence with it
DemoReturns ==
    /\ pc = "demo"
    /\ only_returns("demo")
    /\ UNCHANGED <<wo, pn, selected_config>>
    /\ window_frame

\* the ready prompt
WindowReadyPrompt(continue) ==
    /\ pc = "ready"
    /\ IF continue THEN pc' = "measuring" /\ UNCHANGED bench
       ELSE IF ContinueExitDialog THEN return_to_scanning("ready_exit")
       ELSE only_returns("ready_exit")
    /\ UNCHANGED <<wo, pn, selected_config>>
    /\ window_frame

\* the measurement loop ends: an attempt passed, or the operator gave up
\* after a failed one
WindowMeasuringEnds(passed) ==
    /\ pc = "measuring"
    /\ IF passed THEN pc' = "hipot" /\ UNCHANGED bench
       ELSE IF ContinueExitDialog THEN return_to_scanning("measuring_exit")
       ELSE only_returns("measuring_exit")
    /\ UNCHANGED <<wo, pn, selected_config>>
    /\ window_frame

\* the hipot loop ends: left on a pass, lines 650-675, or the operator
\* chose EXIT, or declined the retry of the fallback path
WindowHipotEnds(passed) ==
    /\ pc = "hipot"
    /\ IF passed THEN return_to_scanning("success")
       ELSE IF ContinueRetryExitDialog THEN return_to_scanning("hipot_exit")
       ELSE only_returns("hipot_exit")
    /\ UNCHANGED <<wo, pn, selected_config>>
    /\ window_frame

\* if hasattr(self, '_return_to_scan_callback') and
\* self._return_to_scan_callback: self._return_to_scan_callback()
ReturnToScanCallback ==
    /\ pc = "callback"
    /\ bench' = IF bench.callback THEN return_to_scan_callback(bench) ELSE bench
    /\ pc' = "close"
    /\ UNCHANGED <<wo, pn, selected_config>>
    /\ window_frame

\* ui.close(), and the return of run_full_sequence to the event loop
CloseTestWindow ==
    /\ pc = "close"
    /\ bench' = [bench EXCEPT !.main = FALSE]
    /\ pc' = IF bench.scan THEN "scanning" ELSE "returned"
    /\ UNCHANGED <<wo, pn, selected_config>>
    /\ window_frame

WindowNext ==
    \/ \E id \in Identities : OnScanCompleted(id[1], id[2])
    \/ OnScanCancelled
    \/ \E c \in DialogChoices : OnScanConfigured(c)
    \/ DemoReturns
    \/ \E c \in BOOLEAN : WindowReadyPrompt(c)
    \/ \E passed \in BOOLEAN : WindowMeasuringEnds(passed)
    \/ \E passed \in BOOLEAN : WindowHipotEnds(passed)
    \/ ReturnToScanCallback
    \/ CloseTestWindow

WindowSpec == WindowInit /\ [][WindowNext]_vars

\* =================================================================== claims
\* the blocks of one kind in the local copy of session file n
Blocks(f, n, kind) ==
    LET is_kind(l) == l.kind = kind
    IN  IF n \in DOMAIN f["local"] THEN SelectSeq(f["local"][n], is_kind) ELSE <<>>

\* every driver initialised and the invocation is not run in simulate mode
RealHardware ==
    ~simulate /\ relay_driver /\ hipot_driver /\ meter_driver /\ ~simulate_for_run

\* str.lower() of the message contains "operator cancelled"
mentions_operator_cancelled(msg) ==
    msg \in {"Operator cancelled configuration",
             "Operator cancelled before starting tests",
             "Measuring failed (operator cancelled)",
             "Hipot failed (operator cancelled)"}

\* one more hipot (measurement) sequencer execution in this step
HipotRan == seq_runs'.hip = seq_runs.hip + 1

MeasurementRan == seq_runs'.meas = seq_runs.meas + 1

\* the operator chose Exit at the prompt the invocation stands at
ExitChosen ==
    pc \in {"ready", "measuring_prompt", "hipot_prompt", "hipot_confirm"} /\ pc' = "idle"

\* ---------------------------------------------------------------------- C1
\* C1: whenever run_full_sequence has returned from a non-demo run on real
\* hardware that started a session (Success, Exit at any prompt including the
\* fallback prompts, or after a sequencer exception), all eight relays are off.
C1_RelaysOffWhenReturned ==
    (pc = "idle" /\ ret.kind = "returned" /\ run_seq # 0
        /\ ~is_demo_identity(wo, pn) /\ RealHardware)
    => relays = AllOpen

\* ---------------------------------------------------------------------- C2
\* C2: any two sessions created against the same local and mirror
\* directories, by one tester or by two testers working at the same time,
\* have different sequence numbers.
C2_SequenceNumbersDistinct ==
    \A t1, t2 \in Testers :
        \A i \in 1..Len(tester[t1].made), j \in 1..Len(tester[t2].made) :
            (t1 # t2 \/ i # j) => tester[t1].made[i] # tester[t2].made[j]

\* ---------------------------------------------------------------------- C3
\* C3: in each phase of the session of the current invocation, the k-th
\* sequencer execution has produced exactly one attempt record, numbered k:
\* in the session object while it is current, and in the session file.
C3_AttemptNumbers ==
    /\ current_session.active =>
          /\ Len(current_session.hipot_attempts) = seq_runs.hip
          /\ Len(current_session.measurement_attempts) = seq_runs.meas
          /\ \A k \in 1..seq_runs.hip : current_session.hipot_attempts[k].attempt = k
          /\ \A k \in 1..seq_runs.meas :
                current_session.measurement_attempts[k].attempt = k
    /\ run_seq # 0 =>
          /\ Len(Blocks(fs, run_seq, "hipot")) = seq_runs.hip
          /\ Len(Blocks(fs, run_seq, "measurement")) = seq_runs.meas
          /\ \A k \in 1..seq_runs.hip : Blocks(fs, run_seq, "hipot")[k].n = k
          /\ \A k \in 1..seq_runs.meas : Blocks(fs, run_seq, "measurement")[k].n = k

\* three hipot executions (first run, re-run after CONTINUE, run after that)
\* and their three records
C3_Witness ==
    /\ seq_runs.hip = 3
    /\ Len(Blocks(fs, run_seq, "hipot")) = 3
    /\ current_session.active

\* ---------------------------------------------------------------------- C4
\* C4: the hipot run made after CONTINUE on a failed attempt is followed
\* either by Success (it passed) or by the three-way prompt (it failed), never
\* by another hipot run.
C4_RerunThenPromptOrSuccess ==
    [][pc = "hipot_continue" =>
          pc' = (IF hip_ok' THEN "passed" ELSE "hipot_prompt")]_vars

C7_FinalizedOnceOnEveryExit ==
    (pc = "idle" /\ run_seq # 0) =>
        /\ ~current_session.active
        /\ Len(Blocks(fs, run_seq, "summary")) = 1
        /\ (Blocks(fs, run_seq, "summary")[1].result = "PASS") <=> ret.ok

\* ---------------------------------------------------------------------- C8
\* C8: when the operator chooses Exit at the ready prompt, the measurement
\* retry prompt or the hipot prompt, the session is finalized: its file ends
\* with the one summary, FINAL RESULT FAIL, whose note mentions the operator's
\* cancellation.
C8_ExitFinalizesFail ==
    [][ExitChosen =>
          /\ ~current_session'.active
          /\ Len(Blocks(fs', run_seq, "summary")) = 1
          /\ LET file == fs'["local"][run_seq]
                 last == file[Len(file)]
             IN  /\ last.kind = "summary"
                 /\ last.result = "FAIL"
                 /\ mentions_operator_cancelled(last.msg)
      ]_vars

\* Exit at the hipot prompt after a failed attempt, finalized as FAIL
C8_Witness ==
    /\ pc = "idle" /\ ret = Returned(FALSE, "Hipot failed (operator cancelled)")
    /\ Blocks(fs, run_seq, "summary") # <<>>
    /\ Blocks(fs, run_seq, "summary")[1].result = "FAIL"

\* ---------------------------------------------------------------------- C9
\* C9: an invocation with no stored configuration whose dialog the operator
\* cancels returns failure, performs no relay, hipot or meter operation and
\* creates no session file in any directory.
C9_CancelledConfigurationTouchesNothing ==
    [][(runs' = runs + 1 /\ dialog' = "cancelled") =>
          /\ pc' = "idle" /\ ret'.kind = "returned" /\ ~ret'.ok
          /\ ~hw_touched' /\ relays' = relays
          /\ fs' = fs /\ current_session' = current_session
      ]_vars

\* the second invocation was cancelled at the dialog, after a first one that
\* created a session without a configuration
C9_Witness ==
    /\ dialog = "cancelled" /\ runs = 2
    /\ ret = Returned(FALSE, "Operator cancelled configuration")
    /\ DOMAIN fs["local"] # {}

\* --------------------------------------------------------------------- C10
\* C10: when the operator chooses Exit at the ready prompt, the invocation ends
\* with all relays off and with no measurement and no hipot attempt record in
\* the session file.
C10_ReadyExitResetsAndLogsNothing ==
    [][(pc = "ready" /\ pc' = "idle") =>
          /\ relays' = AllOpen
          /\ Blocks(fs', run_seq, "measurement") = <<>>
          /\ Blocks(fs', run_seq, "hipot") = <<>>
      ]_vars


\* --------------------------------------------------------------------- C11
\* the file holds a summary block
Finalized(file) == \E i \in 1..Len(file) : file[i].kind = "summary"

\* C11: a session file gets one summary at most, and once it holds its
\* summary no call of the log module changes it, in either directory.
C11_FinalizedFileIsImmutable ==
    [][\A d \in Dirs : \A n \in DOMAIN fs[d] :
          Finalized(fs[d][n]) =>
              /\ n \in DOMAIN fs'[d]
              /\ fs'[d][n] = fs[d][n]
      ]_vars

\* --------------------------------------------------------------------- C12
\* C12: from the moment a session is started, its file exists in the local
\* directory and in every mirror directory, with the same contents.
C12_LocalAndMirrorIdentical ==
    run_seq # 0 =>
        \A d \in Dirs :
            /\ run_seq \in DOMAIN fs[d]
            /\ fs[d][run_seq] = fs["local"][run_seq]


\* --------------------------------------------------------------------- C13
\* the steps of run_hipot_test after which relay_closed is set
AfterRelayClosed == {"close6", "run"}

\* C13: when an exception aborts a hipot attempt after the relay path has
\* started closing, every relay is off when run_hipot_test re-raises, for
\* either value of keep_relay_closed
C13_RelaysOffWhenAttemptRaises ==
    (bench.op = "run_hipot_test" /\ bench.raised /\ bench.fault \in AfterRelayClosed)
        => relays = AllOpen


\* --------------------------------------------------------------------- C14
\* the operator chose Exit at a prompt of the hipot phase
HipotExitChosen == pc \in {"hipot_prompt", "hipot_confirm"} /\ pc' = "idle"

\* C14: when the operator chooses Exit in the hipot phase, by the three-way
\* dialog or by declining the fallback confirm-retry prompt, the two hipot
\* relays (index 6 and index 7) are open when the session ends.
C14_HipotExitOpensHipotRelays ==
    [][HipotExitChosen => (~relays'[6] /\ ~relays'[7])]_vars


\* --------------------------------------------------------------------- C15
\* C15: in an invocation whose identity forces simulate mode (such as
\* ("demo", "demo")) on a runner constructed with real drivers, neither the
\* measurement phase nor the hipot phase invokes a relay, meter or
\* hipot-instrument operation: no hardware has been touched while the
\* invocation stands in one of its phases.
C15_SentinelIdentityTouchesNoHardware ==
    (pc # "idle" /\ ~simulate /\ should_use_simulate_mode(wo, pn)) => ~hw_touched


\* --------------------------------------------------------------------- C16
\* an invocation begins with identity ("TEST", "TEST") in some letter case and
\* its configuration step is not cancelled
DemoRunBegins ==
    /\ runs' = runs + 1
    /\ wo' \in {"TEST", "test"} /\ pn' \in {"TEST", "test"}
    /\ dialog' # "cancelled"

\* C16: an invocation with identity ("TEST", "TEST"), in any letter case,
\* invokes no relay, meter or hipot-instrument method, and its session is
\* finalized as PASS with a note that names demo mode.
C16_DemoIdentityRunsDemo ==
    [][DemoRunBegins =>
          /\ pc' = "idle" /\ ret'.kind = "returned" /\ ret'.ok
          /\ ~hw_touched' /\ relays' = relays
          /\ ~current_session'.active
          /\ LET file == fs'["local"][run_seq']
                 last == file[Len(file)]
             IN  /\ Len(Blocks(fs', run_seq', "summary")) = 1
                 /\ last.kind = "summary"
                 /\ last.result = "PASS"
                 /\ last.mode = "demo"
      ]_vars

\* the demo identity in mixed case on a runner with every driver initialised
C16_Witness ==
    /\ pc = "idle" /\ wo = "TEST" /\ pn = "test" /\ ret.kind = "returned"
    /\ ~simulate /\ relay_driver /\ hipot_driver /\ meter_driver
    /\ run_seq # 0 /\ Blocks(fs, run_seq, "summary") # <<>>


\* --------------------------------------------------------------------- C17
\* the sub-test of the last call needs a driver that failed to initialize, on
\* a runner that is not in simulate mode, for an identity that is no sentinel
AffectedSubTest ==
    /\ ~simulate
    /\ \/ /\ bench.op = "run_hipot"
          /\ ~should_use_simulate_mode(bench.wo, bench.pn)
          /\ ~relay_driver \/ ~hipot_driver
       \/ /\ bench.op = "run_measuring"
          /\ ~relay_driver \/ ~meter_driver

NoTableEntry ==
    /\ selected_config.present
    /\ RESISTANCE_RANGE(selected_config.voltage, selected_config.wattage) = <<0, 0>>

\* C18: when the selected voltage/wattage combination has no entry in the
\* resistance table, a measurement attempt in which every point gets a valid
\* reading is not judged against any range: it passes and its message names no
\* failed point.
C18_NoTableEntryIsNotJudged ==
    (/\ bench.op = "run_measuring" /\ NoTableEntry
     /\ \A i \in Points : bench.outcomes[i].kind = "reading")
        => bench.passed /\ bench.msg.points = {}


\* --------------------------------------------------------------------- C19
\* C19: a measurement attempt of the sequencer is reported as passed if and
\* only if no point timed out, at least one point was attempted and, when a
\* range is configured, every recorded value lies within the range.
C19_PassedIffNoTimeoutAndInRange ==
    bench.op = "run_test" =>
        (bench.passed <=>
            /\ \A i \in Points : bench.outcomes[i].kind # "timeout"
            /\ DOMAIN bench.values # {}
            /\ bench.resistance_range.configured =>
                  \A i \in DOMAIN bench.values :
                      /\ bench.resistance_range.rmin <= bench.values[i]
                      /\ bench.values[i] <= bench.resistance_range.rmax)

\* a passed attempt under a configured range, every point read as 9.84 ohm
C19_Witness ==
    /\ bench.op = "run_test" /\ bench.passed /\ bench.resistance_range.configured
    /\ \A i \in Points : bench.outcomes[i] = [kind |-> "reading", value |-> 984]


\* --------------------------------------------------------------------- C20
\* point p is the only one without a valid reading within the bound, and the
\* other points are read within the configured range
OnlyPointTimedOut(p) ==
    /\ bench.op = "run_test" /\ bench.resistance_range.configured
    /\ bench.outcomes[p].kind = "timeout"
    /\ \A q \in Points \ {p} :
          /\ bench.outcomes[q].kind = "reading"
          /\ bench.resistance_range.rmin <= bench.values[q]
          /\ bench.values[q] <= bench.resistance_range.rmax

\* C20: when exactly one point gets no valid reading within the bound while
\* the other points succeed in range, the attempt fails, that point's
\* recorded value is 0.0 and the failure message names that point.
C20_TimedOutPointIsNamed ==
    \A p \in Points :
        OnlyPointTimedOut(p) =>
            /\ ~bench.passed
            /\ bench.values[p] = 0
            /\ \E side \in Sides : <<side, p>> \in bench.msg.points

\* --------------------------------------------------------------------- C21
\* the letters of PASS in either case
PassLetters == <<{"P", "p"}, {"A", "a"}, {"S", "s"}, {"S", "s"}>>

\* C21: a hipot run is judged Pass if and only if the raw result contains the
\* substring PASS in any letter case (surrounding whitespace does not count);
\* an empty, missing or any other answer is judged Fail.
C21_PassIffResultContainsPass ==
    bench.op = "run_from_file" =>
        (bench.passed <=>
            /\ bench.result.present
            /\ \E i \in 1..Len(bench.result.text) :
                  /\ i + 3 <= Len(bench.result.text)
                  /\ \A k \in 1..4 : bench.result.text[i + k - 1] \in PassLetters[k])

\* a mixed-case PASS between whitespace is judged Pass
C21_Witness ==
    /\ bench.op = "run_from_file" /\ bench.passed
    /\ bench.result = Text(<<" ", "P", "a", "s", "s", "\n">>)

C23_MeasuredValueJudgedAgainstLimits ==
    (/\ bench.op = "run_test" /\ bench.resistance_range.configured
     /\ \A i \in Points : bench.outcomes[i].kind = "reading")
        => (bench.passed <=>
               \A i \in Points :
                   /\ bench.resistance_range.rmin <= bench.outcomes[i].value
                   /\ bench.outcomes[i].value <= bench.resistance_range.rmax)

\* --------------------------------------------------------------------- C24
\* this step is an all-off call that returns normally
SuccessfulAllOff == bench'.op = "all_off" /\ ~bench'.raised

\* C24: from any relay state, a successful all-off call leaves every one of
\* the eight channels off, and a successful all-off call that follows a
\* successful all-off call changes nothing.
C24_AllOffIsIdempotent ==
    [][SuccessfulAllOff =>
          /\ \A c \in Channels : ~relays'[c]
          /\ (bench.op = "all_off" /\ ~bench.raised) => relays' = relays
      ]_vars

\* an all-off call has turned off a board on which all relays were closed
C24_Witness ==
    /\ bench.op = "all_off" /\ ~bench.raised /\ relays = AllOpen
    /\ \A c \in Channels : bench.before[c]

\* --------------------------------------------------------------------- C25
\* file `old` is still there in `new`: nothing of it was removed or replaced
Kept(old, new) == Len(old) <= Len(new) /\ SubSeq(new, 1, Len(old)) = old

\* C25: starting a session never truncates or overwrites a session file that
\* already exists in the local or the mirror directory, also when the mirror
\* becomes reachable or unreachable between the sequence-number scan and the
\* header write.
C25_StartNeverOverwritesExistingFile ==
    [][\A d \in Dirs : \A n \in DOMAIN fs[d] :
          n \in DOMAIN fs'[d] /\ Kept(fs[d][n], fs'[d][n])]_vars

\* --------------------------------------------------------------------- C26
\* the result of the last attempt block of one kind in this invocation's file
LastLogged(kind) ==
    LET b == Blocks(fs, run_seq, kind) IN IF b = <<>> THEN "none" ELSE b[Len(b)].result

\* C26: run_full_sequence reports ok=True for a non-demo identity only if the
\* last logged measurement attempt and the last logged hipot attempt of that
\* session both passed.
C26_OkOnlyAfterBothPhasesPassed ==
    (pc = "idle" /\ ret.kind = "returned" /\ ret.ok /\ run_seq # 0
        /\ ~is_demo_identity(wo, pn))
    => LastLogged("measurement") = "PASS" /\ LastLogged("hipot") = "PASS"

\* ok=True after a failed and then a passed hipot attempt
C26_Witness ==
    /\ pc = "idle" /\ ret.kind = "returned" /\ ret.ok /\ ~is_demo_identity(wo, pn)
    /\ Len(Blocks(fs, run_seq, "hipot")) = 2
    /\ Blocks(fs, run_seq, "hipot")[1].result = "FAIL"


\* the relays a pin-pair's close function closes
PairRelays(point) == {close_relays(point)[k] : k \in 1..Len(close_relays(point))}

\* the channels wired to the pin-pairs
PinRelays == UNION {PairRelays(p) : p \in Points}

\* a measurement attempt is under way, between its call and its return
MeasurementUnderWay == bench.op = "run_test" /\ "at" \in DOMAIN bench

\* C27: all through a measurement attempt the closed pin-pair relays belong
\* to one pin-pair: the relays of a pair are open before those of the next
\* pair are closed, also when a relay operation raises on the way
C27_OnePinPairClosedAtATime ==
    MeasurementUnderWay =>
        \E p \in Points : \A c \in PinRelays : relays[c] => c \in PairRelays(p)

\* the third pair is being closed after the second, and its second
\* set_relay raised with the first relay of the pair closed
C27_Witness ==
    /\ MeasurementUnderWay
    /\ bench.point = 3 /\ bench.at = "emergency_open"
    /\ relays[2] /\ ~relays[3] /\ ~relays[0] /\ ~relays[1] /\ ~relays[4]


\* the measurement attempt has returned to its caller
MeasurementReturned == MeasurementUnderWay /\ bench.at = "returned"

\* C28: when a measurement attempt returns, every relay channel is off
C28_RelaysOffWhenMeasurementReturns ==
    MeasurementReturned => relays = AllOpen


\* run_from_file is about to start the stored-profile test
HipotTestStarts == bench.op = "run_hipot_test" /\ "at" \in DOMAIN bench /\ bench.at = "run_from_file"

\* C29: the stored-profile test starts only after all-off, instrument reset,
\* closing relay 7 and closing relay 6 have happened in that order, and when
\* it starts channels 6 and 7 are the only closed relays
C29_HipotTestStartsFromBaseline ==
    HipotTestStarts =>
        /\ bench.done = <<"all_off", "reset", "close7", "close6">>
        /\ \A c \in Channels : relays[c] <=> c \in {6, 7}


\* an attempt in which the hipot sequencer is called and raises: at the
\* head of the loop, and as the re-run made after CONTINUE on a failure
HipotSequencerRaises ==
    /\ ~simulate_for_run /\ hipot_test_seq
    /\ \E fault \in HipotFaults \ {"none"}, verdict \in BOOLEAN :
          HipotAttempt(fault, verdict) \/ HipotContinueRerun(fault, verdict)

\* an attempt in which the measurement sequencer is called and raises
MeasurementSequencerRaises ==
    /\ ~simulate /\ measurement_test_seq
    /\ \E verdict \in BOOLEAN, touched \in BOOLEAN : MeasurementAttempt(verdict, TRUE, touched)

\* the attempt just made is in the session's list of attempts as a failure
LoggedAsFailed(before, after) ==
    /\ Len(after) = Len(before) + 1
    /\ ~after[Len(after)].passed

\* C30: an attempt whose sequencer raises is a failed attempt, it is logged,
\* the operator is prompted next, and run_full_sequence has not returned
C30_SequencerExceptionBecomesFailedAttempt ==
    [][/\ HipotSequencerRaises =>
             /\ ~hip_ok'
             /\ LoggedAsFailed(current_session.hipot_attempts, current_session'.hipot_attempts)
             /\ pc' \in {"hipot_prompt", "hipot_confirm"}
             /\ ret' = ret
       /\ MeasurementSequencerRaises =>
             /\ ~meas_ok'
             /\ LoggedAsFailed(current_session.measurement_attempts,
                               current_session'.measurement_attempts)
             /\ pc' = "measuring_prompt"
             /\ ret' = ret]_vars


\* the pin-pairs at which run_test caught an exception
RaisedPoints ==
    IF bench.op = "run_test" /\ "outcomes" \in DOMAIN bench
    THEN {p \in Points : bench.outcomes[p].kind = "error"} ELSE {}

\* C31: when a pin-pair raised during a measurement attempt, its value is
\* recorded as 0.0 and the attempt is not reported as passed, with or
\* without an acceptance range
C31_RaisedPointFailsTheAttempt ==
    RaisedPoints # {} =>
        /\ \A p \in RaisedPoints : bench.values[p] = 0
        /\ ~bench.passed


\* a hipot run is about to be made: at the head of the loop or as the
\* re-run after CONTINUE on a failure
HipotRunIsNext == pc \in {"hipot", "hipot_continue"}

\* C32: just before the n-th hipot run of the phase the retry counter is n-1
C32_RetryCounterCountsHipotRuns ==
    HipotRunIsNext => attempt = seq_runs.hip


\* a run of a runner constructed in simulate mode, for a non-demo identity
\* and a configuration picked in the dialog, has made measurement attempts
SimulatedMeasurementMade ==
    /\ simulate /\ ~is_demo_identity(wo, pn)
    /\ selected_config \in Configs
    /\ pc \in {"measuring_prompt", "hipot"} /\ seq_runs.meas >= 1 /\ seq_runs.hip = 0

\* C33: in simulate mode, for every configuration of the dialog, operator
\* choices exist that lead to Success. The simulated readings are fixed and
\* Success lies behind a passed measurement attempt, so such choices exist
\* exactly when the simulated measurement attempt passes
C33_SimulateModeCanReachSuccess ==
    SimulatedMeasurementMade => meas_ok


\* the local session files that have no summary yet
Unfinalized(f) == {n \in DOMAIN f["local"] : ~Finalized(f["local"][n])}

\* start_test_session is called while the current session has no final result
StartOverUnfinalized ==
    /\ runs' = runs + 1
    /\ current_session.active /\ current_session.final_result = "none"
    /\ current_session'.active /\ run_seq' = current_session'.seq

\* the file ends with a FAIL summary noting the session ended without completion
ClosedAsIncomplete(file) ==
    LET last == file[Len(file)]
    IN  /\ last.kind = "summary" /\ last.result = "FAIL"
        /\ last.msg = "Session ended without completion (new session started)"

\* C34: at most one session is unfinalized at any time; a session started
\* over an unfinalized one first closes that one as FAIL, ended without
\* completion, and only then is the new session created
C34_AtMostOneUnfinalizedSession ==
    [][/\ Cardinality(Unfinalized(fs')) <= 1
       /\ StartOverUnfinalized =>
             /\ ClosedAsIncomplete(fs'["local"][current_session.seq])
             /\ current_session'.seq # current_session.seq
             /\ current_session'.final_result = "none"
             /\ Unfinalized(fs') = {current_session'.seq}
      ]_vars

\* a session was started over an unfinalized one that had logged an attempt
C34_Witness ==
    /\ current_session.active /\ current_session.seq = 2
    /\ 1 \in DOMAIN fs["local"]
    /\ Len(fs["local"][1]) >= 3
    /\ ClosedAsIncomplete(fs["local"][1])
    /\ Unfinalized(fs) = {2}


\* the reading loop of the current pin-pair is over
ReadingLoopOver == MeasurementUnderWay /\ bench.at = "open"

\* C35: per pin-pair the meter is polled at most 10 times and no poll is
\* started once the per-point timeout has elapsed; a pin-pair without a
\* valid value is recorded as 0.0 and the scan goes on; the measurement
\* attempt returns
C35_PollingIsBoundedAndAttemptReturns ==
    /\ [](MeasurementUnderWay =>
            /\ bench.polls <= max_attempts
            /\ bench.polls > 0 => bench.polled_at < timeout_per_position_s)
    /\ [](ReadingLoopOver =>
            /\ Len(bench.left_vals) = bench.point
            /\ ~bench.reading_valid => bench.left_vals[bench.point] = 0)
    /\ (MeasurementUnderWay ~> MeasurementReturned)

\* two pin-pairs gave no valid value and were recorded as 0.0, the third
\* gave its reading at the tenth poll, and the attempt returned
C35_Witness ==
    /\ MeasurementReturned
    /\ bench.left_vals = <<0, 0, round1(984)>>
    /\ bench.polls = max_attempts /\ bench.reading_valid


\* tester t's _get_next_sequence_number returns in this step
ReturnsSequenceNumber(t) == tester[t].pc = "probe" /\ tester'[t].pc = "write_header"

OnSuccessPath == bench.op = "windows" /\ bench.path = "success"

C38_OpenRelayOpensEveryRelay ==
    bench.op = "open_relay" => relays = AllOpen

====
